---- MODULE Spec2Model ----
(***************************************************************************)
(* Data-access layer of the story game (src/src/scripts/story.ts).         *)
(*                                                                         *)
(* A string is a sequence of tokens: a token is either one separator       *)
(* character ("/" or "\\") or a run of characters holding no separator.    *)
(* ".json" is a token of its own, so that String.replace('.json', '') can  *)
(* be followed inside a file name.  JSON null is the string Null.          *)
(*                                                                         *)
(* The helpers imported from ./utils, ./strings and ./templateStoryData    *)
(* are written from the specification: path join / sanitize / relativize,  *)
(* the fixed file names, the template payloads.                            *)
(***************************************************************************)
EXTENDS Naturals, Sequences, FiniteSets

VARIABLES
    family,     \* which group of operations this session exercises
    sep,        \* @tauri-apps/api/path sep of the platform
    baseDir,    \* the story directory the calls are given
    core,       \* the file <baseDir>/<core> on disk
    scenes,     \* the directory <baseDir>/<scenes>: its files in readDir order
    resources,  \* the directory <baseDir>/<resources>
    stories,    \* the collections / workspace directory: its entries in readDir order
    info,       \* the StoryInfo the caller holds (from resolveStoryInfo)
    coreRead,   \* the core file as it was when info was resolved
    written,    \* the StoryInfo given to the last writeStoryInfoToDisk
    last,       \* the last completed call
    ret,        \* what the last completed call settled with
    cns         \* the createNewStory call in progress and the disk under it

vars == <<family, sep, baseDir, core, scenes, resources, stories, info, coreRead,
          written, last, ret, cns>>

(***************************************************************************)
(* Bounds of the model.                                                    *)
(***************************************************************************)
MaxEntries == 2     \* entries of a directory listing
MaxTime == 1        \* creation instants 0 .. MaxTime (milliseconds)

(***************************************************************************)
(* Strings.                                                                *)
(***************************************************************************)
Null == <<"#null">>
SepChars == {"/", "\\"}
Str(s) == <<s>>

\* strings.fileNames.* and strings.navigationKeywords.end
scenesFolder == Str("scenes")
resourcesFolder == Str("resources")
coreFile == <<"core", ".json">>
thumbnailFile == Str("book.png")
firstScene == <<"scene1", ".json">>
secondScene == <<"scene2", ".json">>
workspaceFolder == Str("workspace")
navigationEnd == Str("$end")

\* Array.prototype.join and string concatenation print null as the empty string
\* resp. take it as no characters.
Text(v) == IF v = Null THEN <<>> ELSE v

\* utils.sanitizePath(path, separator): every separator character becomes
\* `separator`.
sanitizePath(path, separator) ==
    [i \in 1..Len(path) |-> IF path[i] \in SepChars THEN separator ELSE path[i]]

\* utils.joinPath(a, b): the parts joined by the platform separator.
joinPath(a, b) == Text(a) \o <<sep>> \o Text(b)

IsPrefix(p, q) == Len(p) <= Len(q) /\ SubSeq(q, 1, Len(p)) = p

\* utils.convertAbsoluteToRelative(absolutePath, baseDir): the path below baseDir,
\* without the separator that follows baseDir.
convertAbsoluteToRelative(absolutePath, dir) ==
    LET a == Text(absolutePath)
        rest == IF IsPrefix(dir, a) THEN SubSeq(a, Len(dir) + 1, Len(a)) ELSE a
    IN  IF rest # <<>> /\ rest[1] \in SepChars THEN Tail(rest) ELSE rest

\* String.prototype.split(s) and Array.prototype.join(s) for a one-character s.
RECURSIVE split(_, _)
split(path, s) ==
    IF \A i \in 1..Len(path) : path[i] # s THEN <<path>>
    ELSE LET k == CHOOSE i \in 1..Len(path) :
                      path[i] = s /\ \A j \in 1..(i - 1) : path[j] # s
         IN  <<SubSeq(path, 1, k - 1)>> \o split(SubSeq(path, k + 1, Len(path)), s)

RECURSIVE join(_, _)
join(parts, s) ==
    IF parts = <<>> THEN <<>>
    ELSE IF Len(parts) = 1 THEN parts[1]
    ELSE parts[1] \o <<s>> \o join(Tail(parts), s)

\* Array.prototype.pop(): the array without its last element.
pop(parts) == IF parts = <<>> THEN <<>> ELSE SubSeq(parts, 1, Len(parts) - 1)

\* utils.getObjFromPath(path): the last component of the path.
getObjFromPath(path) ==
    LET parts == split(sanitizePath(path, sep), sep) IN parts[Len(parts)]

\* String.prototype.replace(needle, '') for a one-token needle: the first
\* occurrence goes, the others stay.
replaceFirst(str, needle) ==
    IF \A i \in 1..Len(str) : str[i] # needle THEN str
    ELSE LET k == CHOOSE i \in 1..Len(str) :
                      str[i] = needle /\ \A j \in 1..(i - 1) : str[j] # needle
         IN  SubSeq(str, 1, k - 1) \o SubSeq(str, k + 1, Len(str))

(***************************************************************************)
(* Files, JSON values and promise outcomes.                                *)
(***************************************************************************)
Absent == [kind |-> "absent"]                \* no such file, or a directory
Garbage == [kind |-> "garbage"]              \* text that JSON.parse rejects
Json(v) == [kind |-> "json", json |-> v]

Rejected == [kind |-> "rejected"]
Resolved(v) == [kind |-> "resolved", value |-> v]
Nothing == [kind |-> "none"]

\* creation_date as JSON holds it and as a Date object.
IsoString(t) == [k |-> "iso", t |-> t]       \* Date.prototype.toISOString of t
BadDateString == [k |-> "text", t |-> 0]     \* a string Date cannot parse
JsonNumber(t) == [k |-> "number", t |-> t]
JsonNull == [k |-> "null", t |-> 0]
Date(t) == [k |-> "Date", t |-> t]
InvalidDate == [k |-> "InvalidDate", t |-> 0]

\* new Date(value)
newDate(value) ==
    IF value.k \in {"iso", "number"} THEN Date(value.t)
    ELSE IF value.k = "null" THEN Date(0)
    ELSE IF value.k = "Date" THEN value
    ELSE InvalidDate

\* Date.prototype.toJSON, which JSON.stringify calls before the replacer.
toJSON(value) ==
    IF value.k = "Date" THEN IsoString(value.t)
    ELSE IF value.k = "InvalidDate" THEN JsonNull
    ELSE value

(***************************************************************************)
(* resolveStoryInfo and writeStoryInfoToDisk.                              *)
(***************************************************************************)
\* The reviver with the paths joined to the sanitized directory.
storyReviverSanitized(dir, key, value) ==
    IF key = "creation_date" THEN newDate(value)
    ELSE IF key = "thumbnail" \/ key = "entry_point" THEN joinPath(sanitizePath(dir, sep), value)
    ELSE IF key = "base_dir" THEN sanitizePath(dir, sep)
    ELSE value

\* The reviver of resolveStoryInfo.
storyReviver(dir, key, value) ==
    IF key = "creation_date" THEN newDate(value)
    ELSE IF key = "thumbnail" \/ key = "entry_point" THEN joinPath(dir, value)
    ELSE IF key = "base_dir" THEN sanitizePath(dir, sep)
    ELSE value

\* readTextFile then JSON.parse: `io` is whether the device answers.
resolveStoryInfo(dir, file, io) ==
    IF ~io \/ file.kind # "json" THEN Rejected
    ELSE Resolved([key \in DOMAIN file.json |-> storyReviver(dir, key, file.json[key])])

\* The replacer without the entry_point key.
storyReplacerThumbnailOnly(dir, key, value) ==
    IF key = "thumbnail" THEN convertAbsoluteToRelative(value, dir)
    ELSE IF key = "base_dir" THEN <<>>
    ELSE value

\* The replacer of writeStoryInfoToDisk, after toJSON.
storyReplacer(dir, key, value) ==
    IF key = "thumbnail" \/ key = "entry_point" THEN convertAbsoluteToRelative(value, dir)
    ELSE IF key = "base_dir" THEN <<>>
    ELSE value

\* JSON.stringify(data, replacer): the text written to the core file.
writeStoryInfoJSON(data, dir) ==
    Json([key \in DOMAIN data |->
            storyReplacer(dir, key, IF key = "creation_date" THEN toJSON(data[key]) ELSE data[key])])


(***************************************************************************)
(* Directories and the inputs of a session.                                *)
(***************************************************************************)
Dir(entries) == [kind |-> "dir", entries |-> entries]

\* readDir(dir): the entries, or a rejection when the directory is missing or the
\* device does not answer.
readDir(dir, io) == IF ~io \/ dir.kind # "dir" THEN Rejected ELSE Resolved(dir.entries)

\* Story directories as a caller names them: with the platform's separator, or
\* with both separator characters.
BaseDirs == {<<sep, "app", sep, "s1">>, <<"/", "app", "\\", "s2">>}

StoredDates ==
    {IsoString(t) : t \in 0..MaxTime} \cup {JsonNumber(MaxTime), JsonNull, BadDateString}

StoredThumbnails ==
    {Null, <<"resources", "/", "book.png">>, <<"resources", "\\", "book.png">>}

StoredEntryPoints ==
    {<<>>, <<"scenes", "/", "scene1", ".json">>, <<"/", "scenes", "/", "scene1", ".json">>}

CoreJSONs ==
    [title : {Str("t")}, description : {Str("d")}, author : {Str("a")},
     creation_date : StoredDates, thumbnail : StoredThumbnails,
     entry_point : StoredEntryPoints, base_dir : {<<>>, Str("old")}]

CoreFiles == {Absent, Garbage} \cup {Json(j) : j \in CoreJSONs}

\* A completed call: the function, its path argument, whether the device answered
\* each of its filesystem requests (in the order made), whether its promise resolved.
Call(fn, arg, io, ok) == [fn |-> fn, arg |-> arg, io |-> io, ok |-> ok]

NoCall == Call("none", <<>>, <<>>, FALSE)

NoCreate == [pc |-> "off"]

(***************************************************************************)
(* Family "story": resolveStoryInfo, resolveExtraStoryInfo and             *)
(* writeStoryInfoToDisk on one story directory.                            *)
(***************************************************************************)
InitStory ==
    /\ family = "story"
    /\ sep \in SepChars
    /\ baseDir \in BaseDirs
    /\ core \in CoreFiles
    /\ scenes \in {Absent, Dir(<<>>)}
    /\ resources \in {Absent, Dir(<<thumbnailFile>>)}
    /\ stories = Absent
    /\ info = Nothing
    /\ coreRead = Nothing
    /\ written = Nothing
    /\ last = NoCall
    /\ ret = Nothing
    /\ cns = NoCreate

storyDisk == <<family, sep, baseDir, scenes, resources, stories, cns>>

\* resolveStoryInfo(baseDir), the caller keeping the result.
ResolveStoryInfo ==
    /\ family = "story"
    /\ \E io \in BOOLEAN :
         LET r == resolveStoryInfo(baseDir, core, io) IN
         /\ ret' = r
         /\ last' = Call("resolveStoryInfo", baseDir, <<io>>, r.kind = "resolved")
         /\ info' = IF r.kind = "resolved" THEN r ELSE info
         /\ coreRead' = IF r.kind = "resolved" THEN core ELSE coreRead
    /\ UNCHANGED <<storyDisk, core, written>>

\* resolveExtraStoryInfo(baseDir): the three awaits in order.
resolveExtraStoryInfo(dir, file, resDir, scDir, io1, io2, io3) ==
    LET base == resolveStoryInfo(dir, file, io1)
        res == readDir(resDir, io2)
        sc == readDir(scDir, io3)
    IN  IF base.kind = "rejected" \/ res.kind = "rejected" \/ sc.kind = "rejected"
        THEN Rejected
        ELSE Resolved([base_story_info |-> base.value,
                       resources_count |-> Len(res.value),
                       scenes_count |-> Len(sc.value)])

ResolveExtraStoryInfo ==
    /\ family = "story"
    /\ \E io1, io2, io3 \in BOOLEAN :
         LET r == resolveExtraStoryInfo(baseDir, core, resources, scenes, io1, io2, io3) IN
         /\ ret' = r
         /\ last' = Call("resolveExtraStoryInfo", baseDir, <<io1, io2, io3>>, r.kind = "resolved")
    /\ UNCHANGED <<storyDisk, core, info, coreRead, written>>

\* writeStoryInfoToDisk(data, baseDir) with the StoryInfo the caller holds: the
\* core file is overwritten, or the write fails and the promise rejects.
WriteStoryInfoToDisk ==
    /\ family = "story"
    /\ info.kind = "resolved"
    /\ \E io \in BOOLEAN :
         /\ core' = IF io THEN writeStoryInfoJSON(info.value, baseDir) ELSE core
         /\ ret' = IF io THEN Resolved(<<>>) ELSE Rejected
         /\ last' = Call("writeStoryInfoToDisk", baseDir, <<io>>, io)
         /\ written' = IF io THEN info ELSE written
    /\ UNCHANGED <<storyDisk, info, coreRead>>

NextStory == ResolveStoryInfo \/ ResolveExtraStoryInfo \/ WriteStoryInfoToDisk

SpecStory == InitStory /\ [][NextStory]_vars


(***************************************************************************)
(* Properties of the story family.                                         *)
(***************************************************************************)
\* A write of the StoryInfo the caller resolved has just succeeded.
Rewritten ==
    /\ last.fn = "writeStoryInfoToDisk"
    /\ last.ok
    /\ coreRead.kind = "json"

\* C1: when a story's core JSON holds relative paths t (thumbnail) and e
\* (entry_point), resolveStoryInfo followed by writeStoryInfoToDisk of the result
\* leaves the core JSON with thumbnail = t, entry_point = e and base_dir = "".
C1_RoundTripDisk ==
    (Rewritten /\ coreRead.json.thumbnail # Null /\ coreRead.json.entry_point # Null)
        => /\ core.kind = "json"
           /\ core.json.thumbnail = coreRead.json.thumbnail
           /\ core.json.entry_point = coreRead.json.entry_point
           /\ core.json.base_dir = <<>>

\* The round trip has run on a story whose stored paths use the separator the
\* platform does not, under a directory named with both, with a stale base_dir.
C1_Witness ==
    /\ Rewritten
    /\ coreRead.json.thumbnail = <<"resources", "\\", "book.png">>
    /\ coreRead.json.entry_point = <<"/", "scenes", "/", "scene1", ".json">>
    /\ coreRead.json.base_dir = Str("old")
    /\ sep = "/"
    /\ baseDir = <<"/", "app", "\\", "s2">>

\* The StoryInfo written last has been read back.
ReadBack ==
    /\ last.fn = "resolveStoryInfo"
    /\ last.ok
    /\ written.kind = "resolved"

\* C7 as stated: after writeStoryInfoToDisk(s, baseDir), resolveStoryInfo(baseDir)
\* returns a StoryInfo equal to s in every field.
C7_RoundTripMemoryAsStated == ReadBack => info.value = written.value

\* What a Date is after JSON.stringify and new Date.
dateReadBack(d) == IF d = InvalidDate THEN Date(0) ELSE d

\* C7 amended: the StoryInfo read back equals s in title, description, author,
\* thumbnail, entry_point and base_dir, and in creation_date unless that is an
\* Invalid Date, which is read back as the epoch; what is read back never holds an
\* Invalid Date, so the second cycle is a fixed point.
C7_RoundTripMemory ==
    ReadBack =>
        /\ info.value = [written.value EXCEPT !.creation_date = dateReadBack(@)]
        /\ info.value.creation_date # InvalidDate

\* A StoryInfo with an Invalid Date, under a directory named with both
\* separators, has been written and read back.
C7_Witness ==
    /\ ReadBack
    /\ written.value.creation_date = InvalidDate
    /\ info.value.creation_date = Date(0)
    /\ written.value.thumbnail = joinPath(baseDir, <<"resources", "\\", "book.png">>)
    /\ baseDir = <<"/", "app", "\\", "s2">>

(***************************************************************************)
(* resolveSceneInfo, resolveSceneActions, resolveBaseDirFromScenePath.     *)
(***************************************************************************)
NullValue == [kind |-> "null"]
Array(items) == [kind |-> "array", items |-> items]
Object(fields) == [kind |-> "object", fields |-> fields]

\* The destination of one multiple_choice entry, resolved.
multipleChoiceDestination(value, dir) ==
    IF value = Null \/ value = navigationEnd THEN value ELSE joinPath(dir, value)

\* single_choice tested for null alone.
singleChoiceDestinationNullOnly(value, dir) ==
    IF value = Null THEN value ELSE joinPath(dir, value)

\* The single_choice destination, resolved.
singleChoiceDestination(value, dir) ==
    IF value = Null \/ value = navigationEnd THEN value ELSE joinPath(dir, value)

\* resolveSceneActions(sceneAction, baseDir) for a scene_actions object.
resolveSceneActions(sceneAction, dir) ==
    [multiple_choice |->
        IF sceneAction.multiple_choice.kind = "array"
        THEN Array([i \in 1..Len(sceneAction.multiple_choice.items) |->
                      [action |-> sceneAction.multiple_choice.items[i].action,
                       destination |->
                           multipleChoiceDestination(
                               sceneAction.multiple_choice.items[i].destination, dir)]])
        ELSE sceneAction.multiple_choice,
     single_choice |-> singleChoiceDestination(sceneAction.single_choice, dir)]

\* One pop: the directory of the scene file.
resolveBaseDirOnePop(scenePath) ==
    join(pop(split(sanitizePath(scenePath, sep), sep)), sep)

resolveBaseDirFromScenePath(scenePath) ==
    join(pop(pop(split(sanitizePath(scenePath, sep), sep))), sep)

\* The reviver without the null test on media.
sceneReviverNoNullTest(dir, key, value) ==
    IF key = "media" THEN joinPath(dir, value)
    ELSE IF key = "scene_actions" THEN Object(resolveSceneActions(value.fields, dir))
    ELSE value

\* The reviver of resolveSceneInfo; scene_actions is an object here.
sceneReviver(dir, key, value) ==
    IF key = "media" THEN (IF value # Null THEN joinPath(dir, value) ELSE Null)
    ELSE IF key = "scene_actions" THEN Object(resolveSceneActions(value.fields, dir))
    ELSE value

\* resolveSceneInfo(scenePath): the read, then the parse; resolveSceneActions
\* throws on a scene_actions that is null.
resolveSceneInfo(scenePath, file, io) ==
    IF ~io \/ file.kind # "json" THEN Rejected
    ELSE IF file.json.scene_actions.kind # "object" THEN Rejected
    ELSE LET dir == resolveBaseDirFromScenePath(scenePath) IN
         Resolved([key \in DOMAIN file.json |-> sceneReviver(dir, key, file.json[key])])

(***************************************************************************)
(* Family "scene": resolveSceneInfo on the scene files of one story, which *)
(* lie in <baseDir>/scenes or in a folder below it.                        *)
(***************************************************************************)
Entry(name, file) == [name |-> name, file |-> file]

StoredDestinations == {Null, navigationEnd, <<"scenes", "/", "scene2", ".json">>}

StoredChoices ==
    {NullValue, Array(<<>>)}
    \cup {Array(<<[action |-> Str("go"), destination |-> d]>>) : d \in StoredDestinations}
    \cup {Array(<<[action |-> Str("go"), destination |-> navigationEnd],
                  [action |-> Str("stay"), destination |-> <<"scenes", "/", "scene1", ".json">>]>>)}

StoredSceneActions ==
    {NullValue} \cup
    {Object(f) : f \in [multiple_choice : StoredChoices, single_choice : StoredDestinations]}

SceneJSONs ==
    [center_text : {Null}, narration_text : {Str("once")}, background_color : {Null},
     media : {Null, <<"resources", "/", "book.png">>}, scene_actions : StoredSceneActions]

\* The scenes directory: one scene file, directly in it or in a folder of it.
OneSceneDirs ==
    {Dir(<<Entry(firstScene, f)>>) : f \in {Json(j) : j \in SceneJSONs} \cup {Garbage}}
    \cup {Dir(<<Entry(Str("chapter"), Dir(<<Entry(firstScene, Json(j))>>))>>) : j \in SceneJSONs}

InitScene ==
    /\ family = "scene"
    /\ sep \in SepChars
    /\ baseDir \in BaseDirs
    /\ core = Absent
    /\ scenes \in OneSceneDirs
    /\ resources = Absent
    /\ stories = Absent
    /\ info = Nothing
    /\ coreRead = Nothing
    /\ written = Nothing
    /\ last = NoCall
    /\ ret = Nothing
    /\ cns = NoCreate

\* The path readDir gives an entry: the directory's path, the separator, the name.
entryPath(dirPath, name) == dirPath \o <<sep>> \o name

scenesDirPath == joinPath(baseDir, scenesFolder)

\* The files of the scenes directory with their paths, folders one level down
\* included.
SceneFiles ==
    {[path |-> entryPath(scenesDirPath, scenes.entries[i].name),
      file |-> scenes.entries[i].file, direct |-> TRUE] : i \in 1..Len(scenes.entries)}
    \cup UNION {
        {[path |-> entryPath(entryPath(scenesDirPath, scenes.entries[i].name),
                             scenes.entries[i].file.entries[k].name),
          file |-> scenes.entries[i].file.entries[k].file, direct |-> FALSE]
            : k \in 1..(IF scenes.entries[i].file.kind = "dir"
                        THEN Len(scenes.entries[i].file.entries) ELSE 0)}
        : i \in 1..Len(scenes.entries)}

\* resolveSceneInfo(scenePath) on a path of the story's scenes directory.
ResolveSceneInfo ==
    /\ family = "scene"
    /\ \E f \in SceneFiles, io \in BOOLEAN :
         LET r == resolveSceneInfo(f.path, f.file, io) IN
         /\ ret' = r
         /\ last' = Call("resolveSceneInfo", f.path, <<io>>, r.kind = "resolved")
    /\ UNCHANGED <<family, sep, baseDir, core, scenes, resources, stories, info,
                   coreRead, written, cns>>

NextScene == ResolveSceneInfo

SpecScene == InitScene /\ [][NextScene]_vars


(***************************************************************************)
(* Properties of the scene family.                                         *)
(***************************************************************************)
SceneCalled == last.fn = "resolveSceneInfo"
SceneResolved == SceneCalled /\ last.ok

\* The scene file the last resolveSceneInfo was given.
LastScene == CHOOSE f \in SceneFiles : f.path = last.arg

StoredActions == LastScene.file.json.scene_actions.fields
ResolvedActions == ret.value.scene_actions.fields

IsNoDestination(value) == value = Null \/ value = navigationEnd

\* C2: a navigation destination (single_choice, or the destination of a
\* multiple_choice entry) that is null or the end-of-story sentinel is returned
\* unchanged by resolveSceneInfo, whatever the base directory.
C2_EndAndNullUnchanged ==
    SceneResolved =>
        /\ IsNoDestination(StoredActions.single_choice)
              => ResolvedActions.single_choice = StoredActions.single_choice
        /\ ResolvedActions.multiple_choice.kind = StoredActions.multiple_choice.kind
        /\ StoredActions.multiple_choice.kind = "array" =>
              /\ Len(ResolvedActions.multiple_choice.items)
                     = Len(StoredActions.multiple_choice.items)
              /\ \A i \in 1..Len(StoredActions.multiple_choice.items) :
                     IsNoDestination(StoredActions.multiple_choice.items[i].destination)
                        => ResolvedActions.multiple_choice.items[i].destination
                               = StoredActions.multiple_choice.items[i].destination

\* A scene with the sentinel as single_choice and as a multiple_choice destination,
\* beside one that is a path, has been resolved.
C2_Witness ==
    /\ SceneResolved
    /\ StoredActions.single_choice = navigationEnd
    /\ StoredActions.multiple_choice.kind = "array"
    /\ Len(StoredActions.multiple_choice.items) > 1
    /\ StoredActions.multiple_choice.items[1].destination = navigationEnd
    /\ ResolvedActions.multiple_choice.items[Len(StoredActions.multiple_choice.items)].destination
           # StoredActions.multiple_choice.items[Len(StoredActions.multiple_choice.items)].destination

\* The story's directory as base_dir holds it.
storyDir == sanitizePath(baseDir, sep)

StoryResolved == last.fn = "resolveStoryInfo" /\ last.ok

RECURSIVE sceneInfosFrom(_, _, _, _)
sceneInfosFrom(dirPath, entries, ios, i) ==
    IF i > Len(entries) THEN <<>>
    ELSE LET scenePath == entryPath(dirPath, entries[i].name)
             r == resolveSceneInfo(scenePath, entries[i].file, ios[i])
         IN  (IF r.kind = "resolved"
              THEN <<[base_scene_info |-> r.value,
                      scene_name |-> replaceFirst(getObjFromPath(scenePath), ".json"),
                      scene_path |-> scenePath]>>
              ELSE <<>>)
             \o sceneInfosFrom(dirPath, entries, ios, i + 1)

\* A directory that cannot be listed taken as an empty one.
resolveScenesFromFSEmptyOnFailure(dir, scDir, io, ios) ==
    LET listing == readDir(scDir, io) IN
    IF listing.kind = "rejected" THEN Resolved(<<>>)
    ELSE Resolved(sceneInfosFrom(joinPath(dir, scenesFolder), listing.value, ios, 1))

\* resolveScenesFromFS(baseDir): readDir, then the loop over what it lists.
resolveScenesFromFS(dir, scDir, io, ios) ==
    LET listing == readDir(scDir, io) IN
    IF listing.kind = "rejected" THEN Rejected
    ELSE Resolved(sceneInfosFrom(joinPath(dir, scenesFolder), listing.value, ios, 1))

sceneNameToRelativePath(sceneName) ==
    sanitizePath(joinPath(scenesFolder, sceneName \o <<".json">>), "/")

(***************************************************************************)
(* Family "scenes": resolveScenesFromFS on the scenes directory of a story.*)
(***************************************************************************)
\* The listings of at most MaxEntries entries with different names.
Listings(names, files) ==
    UNION {{l \in [1..n -> [name : names, file : files]] :
               \A i, j \in 1..n : i # j => l[i].name # l[j].name}
           : n \in 0..MaxEntries}

SceneNames == {firstScene, <<"a", ".json", "b", ".json">>, Str("notes")}

PlainActions == Object([multiple_choice |-> NullValue, single_choice |-> navigationEnd])

PlainScene(media, actions) ==
    [center_text |-> Null, narration_text |-> Str("once"), background_color |-> Null,
     media |-> media, scene_actions |-> actions]

ListedSceneFiles ==
    {Absent, Garbage, Json(PlainScene(<<"resources", "/", "book.png">>, PlainActions)),
     Json(PlainScene(Null, NullValue))}

InitScenes ==
    /\ family = "scenes"
    /\ sep \in SepChars
    /\ baseDir \in BaseDirs
    /\ core = Absent
    /\ scenes \in {Absent} \cup {Dir(l) : l \in Listings(SceneNames, ListedSceneFiles)}
    /\ resources = Absent
    /\ stories = Absent
    /\ info = Nothing
    /\ coreRead = Nothing
    /\ written = Nothing
    /\ last = NoCall
    /\ ret = Nothing
    /\ cns = NoCreate

\* Whether the device answers each read of the files a directory lists.
IoBits(dir) == [1..(IF dir.kind = "dir" THEN Len(dir.entries) ELSE 0) -> BOOLEAN]

ResolveScenesFromFS ==
    /\ family = "scenes"
    /\ \E io \in BOOLEAN, ios \in IoBits(scenes) :
         LET r == resolveScenesFromFS(baseDir, scenes, io, ios) IN
         /\ ret' = r
         /\ last' = Call("resolveScenesFromFS", baseDir, <<io>> \o ios, r.kind = "resolved")
    /\ UNCHANGED <<family, sep, baseDir, core, scenes, resources, stories, info,
                   coreRead, written, cns>>

NextScenes == ResolveScenesFromFS

SpecScenes == InitScenes /\ [][NextScenes]_vars

(***************************************************************************)
(* Properties of the scenes family.                                        *)
(***************************************************************************)
ScenesListed == last.fn = "resolveScenesFromFS" /\ last.ok

\* The entries of a listing whose file was read (the device answered the read
\* after the readDir, the file is there) and parsed.
Readable(dir, i) == last.io[i + 1] /\ dir.entries[i].file.kind # "absent"
Parsable(dir, i) == dir.entries[i].file.kind = "json"

\* A scene file that resolveSceneInfo accepts: JSON whose scene_actions is an object.
WellFormedScene(i) ==
    /\ Readable(scenes, i)
    /\ Parsable(scenes, i)
    /\ scenes.entries[i].file.json.scene_actions.kind = "object"

WellFormedScenes == {i \in 1..Len(scenes.entries) : WellFormedScene(i)}

\* The place of entry i among the entries of a set, in listing order.
Rank(set, i) == Cardinality({j \in set : j <= i})

\* A file name without its trailing ".json".
withoutJsonSuffix(name) ==
    IF name # <<>> /\ name[Len(name)] = ".json" THEN SubSeq(name, 1, Len(name) - 1)
    ELSE name

\* Whether a file name ends in ".json".
IsJsonName(name) == name # <<>> /\ name[Len(name)] = ".json"

\* C10 as stated, for the files named <something>.json: resolveScenesFromFS
\* returns the well-formed scene entries in listing order and omits the others;
\* for each, scene_name is the file name without its trailing ".json" (also when
\* ".json" occurs elsewhere in the name), and baseDir joined with
\* sceneNameToRelativePath(scene_name) is the file scene_path names.
C10_SceneNameAndPathAgree ==
    ScenesListed =>
        /\ Len(ret.value) = Cardinality(WellFormedScenes)
        /\ \A i \in WellFormedScenes :
              LET x == ret.value[Rank(WellFormedScenes, i)] IN
              /\ x.scene_path = entryPath(scenesDirPath, scenes.entries[i].name)
              /\ IsJsonName(scenes.entries[i].name) =>
                    /\ x.scene_name = withoutJsonSuffix(scenes.entries[i].name)
                    /\ sanitizePath(joinPath(baseDir, sceneNameToRelativePath(x.scene_name)), sep)
                           = sanitizePath(x.scene_path, sep)

(***************************************************************************)
(* resolveStoriesFromFS.                                                   *)
(***************************************************************************)
appDataDirPath == <<sep, "app">>
collectionsPath == joinPath(appDataDirPath, Str("collections"))
workspacePath == joinPath(appDataDirPath, workspaceFolder)

\* The loop left at the first entry that throws.
RECURSIVE storyInfosUntilThrow(_, _, _, _)
storyInfosUntilThrow(dirPath, entries, ios, i) ==
    IF i > Len(entries) THEN <<>>
    ELSE LET r == resolveStoryInfo(entryPath(dirPath, entries[i].name), entries[i].file, ios[i])
         IN  IF r.kind = "resolved"
             THEN <<r.value>> \o storyInfosUntilThrow(dirPath, entries, ios, i + 1)
             ELSE <<>>

\* The loop of resolveStoriesFromFS from entry i on: an entry whose
\* resolveStoryInfo throws is skipped.
RECURSIVE storyInfosFrom(_, _, _, _)
storyInfosFrom(dirPath, entries, ios, i) ==
    IF i > Len(entries) THEN <<>>
    ELSE LET r == resolveStoryInfo(entryPath(dirPath, entries[i].name), entries[i].file, ios[i])
         IN  (IF r.kind = "resolved" THEN <<r.value>> ELSE <<>>)
             \o storyInfosFrom(dirPath, entries, ios, i + 1)

\* resolveStoriesFromFS(location): readDir of the location's directory, the empty
\* listing answered at once, then the loop.
resolveStoriesFromFS(dirPath, dir, io, ios) ==
    LET listing == readDir(dir, io) IN
    IF listing.kind = "rejected" THEN Rejected
    ELSE IF Len(listing.value) <= 0 THEN Resolved(<<>>)
    ELSE Resolved(storyInfosFrom(dirPath, listing.value, ios, 1))

(***************************************************************************)
(* Family "stories": resolveStoriesFromFS on the collections or the        *)
(* workspace directory, here baseDir.                                      *)
(***************************************************************************)
PlainCore(title, thumbnail) ==
    [title |-> title, description |-> Str("d"), author |-> Str("a"),
     creation_date |-> IsoString(0), thumbnail |-> thumbnail,
     entry_point |-> <<"scenes", "/", "scene1", ".json">>, base_dir |-> <<>>]

ListedCoreFiles ==
    {Absent, Garbage, Json(PlainCore(Str("t"), <<"resources", "/", "book.png">>)),
     Json(PlainCore(Str("u"), Null))}

StoryNames == {Str("s1"), Str("s2"), Str("s3")}

InitStories ==
    /\ family = "stories"
    /\ sep \in SepChars
    /\ baseDir \in {collectionsPath, workspacePath}
    /\ core = Absent
    /\ scenes = Absent
    /\ resources = Absent
    /\ stories \in {Absent} \cup {Dir(l) : l \in Listings(StoryNames, ListedCoreFiles)}
    /\ info = Nothing
    /\ coreRead = Nothing
    /\ written = Nothing
    /\ last = NoCall
    /\ ret = Nothing
    /\ cns = NoCreate

ResolveStoriesFromFS ==
    /\ family = "stories"
    /\ \E io \in BOOLEAN, ios \in IoBits(stories) :
         LET r == resolveStoriesFromFS(baseDir, stories, io, ios) IN
         /\ ret' = r
         /\ last' = Call("resolveStoriesFromFS", baseDir, <<io>> \o ios, r.kind = "resolved")
    /\ UNCHANGED <<family, sep, baseDir, core, scenes, resources, stories, info,
                   coreRead, written, cns>>

NextStories == ResolveStoriesFromFS

SpecStories == InitStories /\ [][NextStories]_vars


(***************************************************************************)
(* Properties of the stories family.                                       *)
(***************************************************************************)
StoriesScanned == last.fn = "resolveStoriesFromFS"

WellFormedStories ==
    {i \in 1..Len(stories.entries) : Readable(stories, i) /\ Parsable(stories, i)}

\* C3: resolveStoriesFromFS never fails because of an entry: once the directory is
\* listed it resolves, with one StoryInfo per well-formed entry in listing order
\* and nothing for a malformed (unreadable or unparsable) entry; an empty
\* directory gives the empty list.
C3_MalformedEntriesSkipped ==
    (StoriesScanned /\ stories.kind = "dir" /\ last.io[1]) =>
        /\ last.ok
        /\ Len(ret.value) = Cardinality(WellFormedStories)
        /\ \A i \in WellFormedStories :
              LET x == ret.value[Rank(WellFormedStories, i)] IN
              /\ x.base_dir = sanitizePath(entryPath(baseDir, stories.entries[i].name), sep)
              /\ x.title = stories.entries[i].file.json.title

\* A directory of a malformed entry followed by a well-formed one has been
\* scanned: one StoryInfo.
C3_Witness ==
    /\ StoriesScanned
    /\ last.ok
    /\ Len(stories.entries) > 1
    /\ stories.entries[1].file = Garbage
    /\ 2 \in WellFormedStories
    /\ Len(ret.value) = 1

(***************************************************************************)
(* createNewStory.  The two createDir calls are not awaited: the backend   *)
(* serves them and the awaited writes in any order.  createDir with        *)
(* recursive: true makes the story directory first, then the folder.       *)
(***************************************************************************)
\* templateStoryData
templateStoryInfo(title, description, author, now) ==
    [title |-> title, description |-> description, author |-> author,
     creation_date |-> Date(now), thumbnail |-> <<"resources", "/", "book.png">>,
     entry_point |-> <<"scenes", "/", "scene1", ".json">>, base_dir |-> <<>>]

templateSceneInfo1 ==
    PlainScene(Null, Object([multiple_choice |-> NullValue,
                             single_choice |-> <<"scenes", "/", "scene2", ".json">>]))

templateSceneInfo2 == PlainScene(Null, PlainActions)

bookUint8Array == [kind |-> "png"]

\* JSON.stringify(value, null) of a StoryInfo: the Date goes through toJSON.
stringifyStoryInfo(data) ==
    Json([key \in DOMAIN data |->
            IF key = "creation_date" THEN toJSON(data[key]) ELSE data[key]])

File(path, content) == [path |-> path, content |-> content]

\* The paths createNewStory declares.
newBaseDir(uuidDirName) == joinPath(workspacePath, uuidDirName)
newScenesDir(uuidDirName) == joinPath(newBaseDir(uuidDirName), scenesFolder)
newResourcesDir(uuidDirName) == joinPath(newBaseDir(uuidDirName), resourcesFolder)

\* An awaited write: where it goes, the directory it needs, what it holds.
writeTarget(c, step) ==
    IF step = "core"
    THEN [dir |-> newBaseDir(c.uuid),
          file |-> File(joinPath(newBaseDir(c.uuid), coreFile),
                        stringifyStoryInfo(templateStoryInfo(
                            c.title, c.description, c.author, c.now)))]
    ELSE IF step = "thumbnail"
    THEN [dir |-> newResourcesDir(c.uuid),
          file |-> File(joinPath(newResourcesDir(c.uuid), thumbnailFile), bookUint8Array)]
    ELSE IF step = "scene1"
    THEN [dir |-> newScenesDir(c.uuid),
          file |-> File(joinPath(newScenesDir(c.uuid), firstScene), Json(templateSceneInfo1))]
    ELSE [dir |-> newScenesDir(c.uuid),
          file |-> File(joinPath(newScenesDir(c.uuid), secondScene), Json(templateSceneInfo2))]

\* The second scene left out.
afterWriteOneScene(step) ==
    IF step = "core" THEN "thumbnail"
    ELSE IF step = "thumbnail" THEN "scene1"
    ELSE "returned"

\* What follows a write that succeeded.
afterWrite(step) ==
    IF step = "core" THEN "thumbnail"
    ELSE IF step = "thumbnail" THEN "scene1"
    ELSE IF step = "scene1" THEN "scene2"
    ELSE "returned"

(***************************************************************************)
(* Family "create": one createNewStory call on the workspace directory     *)
(* (stories), whose entries are the stories made before.                   *)
(***************************************************************************)
Titles == {Str("t"), Str("u")}
Descriptions == {Str("d"), <<>>}
Authors == {Str("a"), Str("b")}

InitCreate ==
    /\ family = "create"
    /\ sep \in SepChars
    /\ baseDir = workspacePath
    /\ core = Absent
    /\ scenes = Absent
    /\ resources = Absent
    /\ stories \in {Dir(<<>>), Dir(<<Entry(Str("s1"), Absent)>>)}
    /\ info = Nothing
    /\ coreRead = Nothing
    /\ written = Nothing
    /\ last = NoCall
    /\ ret = Nothing
    /\ \E faulty \in BOOLEAN :
         cns = [pc |-> "ready", faulty |-> faulty]

createDisk == <<family, sep, baseDir, core, scenes, resources, stories, info,
                coreRead, written, last>>

\* crypto.randomUUID() / uuidv4(): a name no entry of the workspace has.
FreshNames == StoryNames \ {stories.entries[i].name : i \in 1..Len(stories.entries)}

\* createNewStory(title, description, author) down to the two createDir calls:
\* both requests are sent, neither is awaited.
CreateNewStory ==
    /\ family = "create"
    /\ cns.pc = "ready"
    /\ \E title \in Titles, description \in Descriptions, author \in Authors,
          uuidDirName \in FreshNames, now \in 0..MaxTime :
         cns' = [pc |-> "dirsSent", faulty |-> cns.faulty,
                 title |-> title, description |-> description, author |-> author,
                 uuid |-> uuidDirName, now |-> now,
                 mk |-> [scenes |-> "sent", resources |-> "sent"],
                 dirs |-> {}, files |-> {}, failed |-> {}]
    /\ UNCHANGED <<createDisk, ret>>

\* The template is filled in and the write of the core file is sent and awaited.
SendCoreWrite ==
    /\ family = "create"
    /\ cns.pc = "dirsSent"
    /\ cns' = [cns EXCEPT !.pc = "core"]
    /\ UNCHANGED <<createDisk, ret>>

mkTarget(c, folder) ==
    IF folder = "scenes" THEN newScenesDir(c.uuid) ELSE newResourcesDir(c.uuid)

\* The backend serves one step of a createDir request: the story directory if it
\* is missing, then the folder; or the request fails.
CreateDirStep ==
    /\ family = "create"
    /\ cns.pc \notin {"ready", "off"}
    /\ \E folder \in {"scenes", "resources"}, io \in BOOLEAN :
         /\ cns.mk[folder] \in {"sent", "parent"}
         /\ io \/ cns.faulty
         /\ cns' =
              IF ~io
              THEN [cns EXCEPT !.mk[folder] = "failed",
                               !.failed = @ \cup {"createDir " \o folder}]
              ELSE IF cns.mk[folder] = "sent"
              THEN [cns EXCEPT !.mk[folder] = "parent",
                               !.dirs = @ \cup {newBaseDir(cns.uuid)}]
              ELSE [cns EXCEPT !.mk[folder] = "done",
                               !.dirs = @ \cup {mkTarget(cns, folder)}]
    /\ UNCHANGED <<createDisk, ret>>

\* The backend serves the awaited write: it needs the directory it writes into.
\* A failure rejects createNewStory; after the last write it returns baseDir.
WriteStep ==
    /\ family = "create"
    /\ cns.pc \in {"core", "thumbnail", "scene1", "scene2"}
    /\ \E io \in BOOLEAN :
         /\ io \/ cns.faulty
         /\ LET w == writeTarget(cns, cns.pc)
                ok == io /\ w.dir \in cns.dirs
            IN  /\ cns' = IF ok
                          THEN [cns EXCEPT !.pc = afterWrite(cns.pc),
                                           !.files = @ \cup {w.file}]
                          ELSE [cns EXCEPT !.pc = "rejected",
                                           !.failed = @ \cup {"write " \o cns.pc}]
                /\ ret' = IF ~ok THEN Rejected
                          ELSE IF afterWrite(cns.pc) = "returned"
                          THEN Resolved(newBaseDir(cns.uuid))
                          ELSE ret
    /\ UNCHANGED createDisk

NextCreate == CreateNewStory \/ SendCoreWrite \/ CreateDirStep \/ WriteStep

SpecCreate == InitCreate /\ [][NextCreate]_vars

(***************************************************************************)
(* Properties of the create family.                                        *)
(***************************************************************************)
Returned == cns.pc = "returned"

WorkspaceNames == {stories.entries[i].name : i \in 1..Len(stories.entries)}

\* C5: when createNewStory(title, description, author) returns baseDir, baseDir is
\* a fresh entry directly under the workspace directory and holds the scenes and
\* resources folders, the core JSON built from the three arguments, the default
\* thumbnail in resources and the two template scenes in scenes.
C5_ReturnedStoryIsComplete ==
    Returned =>
        /\ ret = Resolved(workspacePath \o <<sep>> \o cns.uuid)
        /\ cns.uuid \notin WorkspaceNames
        /\ {ret.value, ret.value \o <<sep, "scenes">>, ret.value \o <<sep, "resources">>}
               \subseteq cns.dirs
        /\ \E f \in cns.files :
              /\ f.path = ret.value \o <<sep>> \o coreFile
              /\ f.content.kind = "json"
              /\ f.content.json.title = cns.title
              /\ f.content.json.description = cns.description
              /\ f.content.json.author = cns.author
        /\ File(ret.value \o <<sep, "resources", sep>> \o thumbnailFile, bookUint8Array)
               \in cns.files
        /\ File(ret.value \o <<sep, "scenes", sep>> \o firstScene, Json(templateSceneInfo1))
               \in cns.files
        /\ File(ret.value \o <<sep, "scenes", sep>> \o secondScene, Json(templateSceneInfo2))
               \in cns.files

\* createNewStory has returned on a device that may fail, beside an older story.
C5_Witness ==
    /\ Returned
    /\ cns.faulty
    /\ cns.title = Str("u")
    /\ cns.description = <<>>
    /\ WorkspaceNames # {}

\* A write is in flight.
Writing == cns.pc \in {"core", "thumbnail", "scene1", "scene2"}

\* C8: in createNewStory no file write is started before the directory it writes
\* into has been created, under every interleaving; so on a filesystem whose only
\* failure is a missing parent directory createNewStory always succeeds.
C8_DirectoriesBeforeWrites ==
    /\ Writing => writeTarget(cns, cns.pc).dir \in cns.dirs
    /\ (family = "create" /\ ~cns.faulty) => cns.pc # "rejected"

(***************************************************************************)
(* All families.                                                           *)
(***************************************************************************)
Init == InitStory \/ InitScene \/ InitScenes \/ InitStories \/ InitCreate

Next == NextStory \/ NextScene \/ NextScenes \/ NextStories \/ NextCreate

Spec == Init /\ [][Next]_vars


(***************************************************************************)
(* Failures and the promises of the operations.                            *)
(***************************************************************************)
Failed(io, file) == ~io \/ file.kind \in {"absent", "dir"}
NotListed(io, dir) == ~io \/ dir.kind # "dir"

\* The operations that await every filesystem request they make.
AwaitedFailuresReject ==
    /\ (last.fn = "resolveStoryInfo" /\ Failed(last.io[1], core)) => ~last.ok
    /\ (last.fn = "resolveExtraStoryInfo"
          /\ (\/ Failed(last.io[1], core)
              \/ NotListed(last.io[2], resources)
              \/ NotListed(last.io[3], scenes))) => ~last.ok
    /\ (last.fn = "resolveSceneInfo" /\ Failed(last.io[1], LastScene.file)) => ~last.ok
    /\ (last.fn = "writeStoryInfoToDisk" /\ ~last.io[1]) => ~last.ok
    /\ (last.fn = "resolveScenesFromFS" /\ NotListed(last.io[1], scenes)) => ~last.ok
    /\ (family = "create" /\ cns.pc # "ready" /\ cns.failed # {}) => cns.pc # "returned"

\* A read of a listed scene file failed.
SceneReadFailed ==
    /\ scenes.kind = "dir"
    /\ \E i \in 1..Len(scenes.entries) : Failed(last.io[i + 1], scenes.entries[i].file)

\* C6 as stated: every operation other than collection scanning rejects when a
\* filesystem step it performs fails, createNewStory's two directory creations and
\* resolveScenesFromFS's reads of the scene files included.
C6_FailuresPropagateAsStated ==
    /\ AwaitedFailuresReject
    /\ (last.fn = "resolveScenesFromFS" /\ SceneReadFailed) => ~last.ok

\* C6 amended: the same, except that resolveScenesFromFS rejects only when the
\* scenes directory cannot be listed: a scene file it cannot read is skipped, as in
\* collection scanning, and the promise resolves.
C6_FailuresPropagate ==
    /\ AwaitedFailuresReject
    /\ (last.fn = "resolveScenesFromFS" /\ ~NotListed(last.io[1], scenes)) => last.ok

\* resolveScenesFromFS has resolved with one scene although the read of another
\* listed scene file failed.
C6_Witness ==
    /\ last.fn = "resolveScenesFromFS"
    /\ last.ok
    /\ SceneReadFailed
    /\ Len(ret.value) = 1

====
